---- MODULE Spec2Model ----
(***************************************************************************)
(* Model of binance-futures-market-watcher.                                *)
(*                                                                         *)
(*   Spec        BinanceAPI.fetch_pair_data, statement by statement, with  *)
(*               asyncio.gather as one step (all results, or an exception) *)
(*   SpecGather  the same call with every coroutine of asyncio.gather run  *)
(*               on its own: get_price, fetch_binance_funding_rate and     *)
(*               get_24hr_change against upstream answers and failures     *)
(*   SpecMain    the polling loop of main and the handler around it        *)
(*   SpecRank    fetch_top_funded_pairs and get_top_gainers_and_losers on  *)
(*               upstream universes                                        *)
(*   SpecArgs    the pair list __main__ builds from the command line       *)
(*   SpecClock   the funding countdown of main against the UTC clock       *)
(***************************************************************************)
EXTENDS Integers, Sequences, FiniteSets, TLC

VARIABLES
    pair_lists,    \* fetch_pair_data: the **pair_lists keyword arguments, in call order
    pc,            \* fetch_pair_data: position in the body
    li,            \* index in pair_lists of the list being iterated (line 187)
    pi,            \* number of pairs of that list already iterated (line 189)
    tasks,         \* line 181
    pair_to_list,  \* line 182
    list_names,    \* line 183
    pairs_names,   \* line 184
    seen,          \* line 185
    dups,          \* line 186
    results,       \* line 200
    data,          \* line 202
    j,             \* line 203
    ret,           \* the returned (data, total) of line 212
    coros,         \* the coroutines of tasks while asyncio.gather runs them (line 200)
    i,             \* main: the tick counter (main.py line 15)
    main_pc,       \* main: position in the loop body, or how the program ended
    rank_at,       \* main: the tick whose ranking refresh set the top_* lists, -1 before
    data_at,       \* main: the tick whose pair-data refresh set data and num_pairs, -1 before
    trading_pairs, \* main: the symbols of the command line (main.py lines 51-63)
    top_shorted_pairs, \* main: line 18
    top_longed_pairs,  \* main: line 18
    top_gainers,   \* main: line 19
    top_losers,    \* main: line 19
    main_data,     \* main: data of line 25 (fetch_pair_data has a local of the same name)
    num_pairs,     \* main: line 25
    frames,        \* main: number of frames print_data printed
    frame,         \* main: what the last print_data printed, or raised
    argv,          \* __main__: the PAIR arguments
    default_pairs, \* __main__: False with --no-default-pairs
    arg_pc,        \* __main__: position in lines 51-67
    clock,         \* the UTC clock, in seconds since a midnight
    clk_pc,        \* position in main.py lines 21-22
    next_funding_time, \* main.py line 21
    countdown,     \* main.py line 22
    read_at,       \* the reading of the clock at main.py line 22 that countdown came from
    printed,       \* what print_pairs printed for every list of a returned data
    rk_op,         \* ranking: the query called
    rk_pc,         \* ranking: "call" before the query runs, "done" after
    universe,      \* ranking: the array the all-symbols endpoint answers with
    futures_symbols, \* ranking: get_binance_futures_symbols() (line 111)
    top_n,         \* ranking: the top_n argument
    rk_ret         \* ranking: what the query returned or raised

fetchVars == <<pair_lists, pc, li, pi, tasks, pair_to_list, list_names, pairs_names,
               seen, dups, results, data, j, ret, coros>>

mainVars == <<i, main_pc, rank_at, data_at, trading_pairs, top_shorted_pairs,
              top_longed_pairs, top_gainers, top_losers, main_data, num_pairs,
              frames, frame>>

rankVars == <<rk_op, rk_pc, universe, futures_symbols, top_n, rk_ret>>

\* The state of the functions modelled apart from the loop and the fetch.
argVars == <<argv, default_pairs, arg_pc>>

clockVars == <<clock, clk_pc, next_funding_time, countdown, read_at>>

printVars == <<printed>>

pureVars == <<rankVars, argVars, clockVars, printVars>>

vars == <<fetchVars, mainVars, pureVars>>

-----------------------------------------------------------------------------
\* Bounds of the model.

\* Longest symbol list passed in one keyword argument.
MaxLen == 2

\* Symbols the callers pass.
Symbols == {"BTCUSDT", "ETHUSDT", "SOLUSDT"}

\* Keyword names of the lists, in the order of the call in main.
ListNames == <<"trading_pairs", "top_gainers", "top_losers">>

None == <<"None">>

-----------------------------------------------------------------------------
\* Helpers.

RECURSIVE SeqsUpTo(_, _)
SeqsUpTo(S, n) ==
    IF n = 0 THEN {<<>>}
    ELSE LET shorter == SeqsUpTo(S, n - 1)
         IN  shorter \cup {Append(s, x) : s \in {t \in shorter : Len(t) = n - 1}, x \in S}

\* Number of indices of seq holding x.
Count(seq, x) == Cardinality({k \in 1..Len(seq) : seq[k] = x})

\* The name and the list of the k-th keyword argument.
ListName(k) == pair_lists[k][1]
PairList(k) == pair_lists[k][2]

\* Sum of the lengths of the lists.
RECURSIVE TotalRefs(_)
TotalRefs(pl) == IF pl = <<>> THEN 0 ELSE Len(Head(pl)[2]) + TotalRefs(Tail(pl))

-----------------------------------------------------------------------------
\* fetch_pair_data.

\* The three coroutines enqueued for a new pair, lines 194-196.
TasksFor(pair) ==
    << [op |-> "get_price", pair |-> pair],
       [op |-> "fetch_binance_funding_rate", pair |-> pair],
       [op |-> "get_24hr_change", pair |-> pair] >>

\* Line 191: has the pair been enqueued already.
AlwaysNew(pair, s) == FALSE
IsSeen(pair, s) == pair \in s

\* Line 190: the list name is appended to the names referencing the pair.
ReferencingOnce(ptl, pair, name) ==
    IF \E k \in 1..Len(ptl[pair]) : ptl[pair][k] = name THEN ptl
    ELSE [ptl EXCEPT ![pair] = @ \o <<name>>]
Referencing(ptl, pair, name) == [ptl EXCEPT ![pair] = @ \o <<name>>]

\* Line 212: the total count returned with the data.
TotalDistinctOnly(names, d) == Len(names)
Total(names, d) == Len(names) + d

\* Line 210, for every l_name of line 209: append the snapshot to each list named.
RECURSIVE AppendToLists(_, _, _)
AppendToLists(d, names, snap) ==
    IF names = <<>> THEN d
    ELSE AppendToLists([d EXCEPT ![Head(names)] = Append(@, snap)], Tail(names), snap)

\* No ranking query is modelled.
IdleRank ==
    /\ rk_op = "none"
    /\ rk_pc = "idle"
    /\ universe = <<>>
    /\ futures_symbols = <<>>
    /\ top_n = 0
    /\ rk_ret = <<"None">>

\* __main__ is not modelled: main is called with no pairs.
IdleArgs ==
    /\ argv = <<>>
    /\ default_pairs = FALSE
    /\ arg_pc = "idle"
    /\ trading_pairs = <<>>

\* The countdown is not modelled.
IdleClock ==
    /\ clock = 0
    /\ clk_pc = "idle"
    /\ next_funding_time = 0
    /\ countdown = <<"None">>
    /\ read_at = <<"None">>

\* Nothing was printed.
IdlePrint == printed = <<"None">>

\* None of the functions modelled apart is running.
Idle == IdleRank /\ IdleArgs /\ IdleClock /\ IdlePrint

\* main.py lines 15-16: the state of main at the first tick.
InitMainVars ==
    /\ i = 0
    /\ main_pc = "rank"
    /\ rank_at = -1
    /\ data_at = -1
    /\ top_shorted_pairs = <<"None">>
    /\ top_longed_pairs = <<"None">>
    /\ top_gainers = <<"None">>
    /\ top_losers = <<"None">>
    /\ main_data = <<"None">>
    /\ num_pairs = <<"None">>
    /\ frames = 0
    /\ frame = <<"None">>

\* Lines 170-186: the state at entry to the for loop.
InitLocals ==
    /\ pc = "scan"
    /\ li = 0
    /\ pi = 0
    /\ tasks = <<>>
    /\ pair_to_list = [p \in Symbols |-> <<>>]
    /\ list_names = {}
    /\ pairs_names = <<>>
    /\ seen = {}
    /\ dups = 0
    /\ results = <<>>
    /\ data = <<>>
    /\ j = 0
    /\ ret = None
    /\ coros = <<>>

Init ==
    /\ pair_lists \in {[k \in 1..Len(ListNames) |-> <<ListNames[k], ls[k]>>] :
                          ls \in [1..Len(ListNames) -> SeqsUpTo(Symbols, MaxLen)]}
    /\ InitLocals
    /\ InitMainVars
    /\ Idle

\* Lines 187-188: the outer for loop takes the next list.
NextList ==
    /\ pc = "scan"
    /\ li < Len(pair_lists)
    /\ li > 0 => pi = Len(PairList(li))
    /\ li' = li + 1
    /\ pi' = 0
    /\ list_names' = list_names \cup {ListName(li + 1)}
    /\ UNCHANGED <<pair_lists, pc, tasks, pair_to_list, pairs_names, seen, dups,
                   results, data, j, ret, coros, mainVars, pureVars>>

\* Lines 189-193: a pair that was seen before.
ScanDup ==
    /\ pc = "scan"
    /\ li > 0
    /\ pi < Len(PairList(li))
    /\ LET pair == PairList(li)[pi + 1] IN
        /\ IsSeen(pair, seen)
        /\ pair_to_list' = Referencing(pair_to_list, pair, ListName(li))
        /\ dups' = dups + 1
    /\ pi' = pi + 1
    /\ UNCHANGED <<pair_lists, pc, li, tasks, list_names, pairs_names, seen,
                   results, data, j, ret, coros, mainVars, pureVars>>

\* Lines 189-191, 194-198: a pair seen for the first time.
ScanNew ==
    /\ pc = "scan"
    /\ li > 0
    /\ pi < Len(PairList(li))
    /\ LET pair == PairList(li)[pi + 1] IN
        /\ ~IsSeen(pair, seen)
        /\ pair_to_list' = Referencing(pair_to_list, pair, ListName(li))
        /\ tasks' = tasks \o TasksFor(pair)
        /\ seen' = seen \cup {pair}
        /\ pairs_names' = Append(pairs_names, pair)
    /\ pi' = pi + 1
    /\ UNCHANGED <<pair_lists, pc, li, list_names, dups, results, data, j, ret, coros, mainVars, pureVars>>

\* The for loop of line 187 is exhausted.
ScanDone ==
    /\ pc = "scan"
    /\ li = Len(pair_lists)
    /\ li > 0 => pi = Len(PairList(li))
    /\ pc' = "gather"
    /\ UNCHANGED <<pair_lists, li, pi, tasks, pair_to_list, list_names, pairs_names,
                   seen, dups, results, data, j, ret, coros, mainVars, pureVars>>

\* Lines 200-202: every coroutine returned. The value of the k-th one is what
\* the upstream answered to request k; no two requests are assumed to get the
\* same answer.
GatherAll ==
    /\ pc = "gather"
    /\ results' = [k \in 1..Len(tasks) |-> [op |-> tasks[k].op, pair |-> tasks[k].pair, req |-> k]]
    /\ data' = [n \in list_names |-> <<>>]
    /\ j' = 0
    /\ pc' = "reassemble"
    /\ UNCHANGED <<pair_lists, li, pi, tasks, pair_to_list, list_names, pairs_names,
                   seen, dups, ret, coros, mainVars, pureVars>>

\* Line 200: a coroutine raised; gather (return_exceptions is not set) raises
\* it in fetch_pair_data, which has no handler.
GatherRaise ==
    /\ pc = "gather"
    /\ tasks # <<>>
    /\ pc' = "raised"
    /\ UNCHANGED <<pair_lists, li, pi, tasks, pair_to_list, list_names, pairs_names,
                   seen, dups, results, data, j, ret, coros, mainVars, pureVars>>

\* Line 207: the symbol the three results from index jj on belong to.
PairAtReversed(names, jj) == names[Len(names) - (jj \div 3)]
PairAt(names, jj) == names[(jj \div 3) + 1]

\* Lines 203-210: one iteration of the loop over the results. The list_names
\* of lines 208-209 is the local l_names here.
Reassemble ==
    /\ pc = "reassemble"
    /\ j < Len(results)
    /\ LET price == results[j + 1]
           funding_rate == results[j + 2]
           change_24hr == results[j + 3]
           pair == PairAt(pairs_names, j)
           l_names == pair_to_list[pair]
       IN  data' = AppendToLists(data, l_names, <<pair, price, funding_rate, change_24hr>>)
    /\ j' = j + 3
    /\ UNCHANGED <<pair_lists, pc, li, pi, tasks, pair_to_list, list_names, pairs_names,
                   seen, dups, results, ret, coros, mainVars, pureVars>>

\* Line 212.
Return ==
    /\ pc = "reassemble"
    /\ j >= Len(results)
    /\ ret' = <<data, Total(pairs_names, dups)>>
    /\ pc' = "done"
    /\ UNCHANGED <<pair_lists, li, pi, tasks, pair_to_list, list_names, pairs_names,
                   seen, dups, results, data, j, coros, mainVars, pureVars>>

Next ==
    \/ NextList
    \/ ScanDup
    \/ ScanNew
    \/ ScanDone
    \/ GatherAll
    \/ GatherRaise
    \/ Reassemble
    \/ Return

Spec == Init /\ [][Next]_vars

-----------------------------------------------------------------------------
\* Values, upstream answers and the single-value fetchers.

\* A Python str and a Python float; floats are written in units of 1/10000.
Str(s) == <<"str", s>>
Float(n) == <<"float", n>>

\* The decimal strings the upstream sends, with float() of each in units of 1/10000.
Decimals ==
    [s \in {"65000.1", "0", "2.5", "0.0001", "-1.5", "-0.0002"} |->
        CASE s = "65000.1" -> 650001000
          [] s = "0" -> 0
          [] s = "2.5" -> 25000
          [] s = "0.0001" -> 1
          [] s = "-1.5" -> -15000
          [] s = "-0.0002" -> -2]

\* float(s) succeeds.
IsNumeric(s) == s \in DOMAIN Decimals

\* An answer without the field asked for (an error body of the exchange).
ErrorBody == [code |-> "-1121"]

\* JSON bodies the upstream answers each request with.
Bodies(op) ==
    CASE op = "get_price" -> {[price |-> "65000.1"], [price |-> "0"], ErrorBody}
      [] op = "get_24hr_change" ->
            {[priceChangePercent |-> "2.5"], [priceChangePercent |-> "abc"], ErrorBody}
      [] op = "fetch_binance_funding_rate" ->
            {[lastFundingRate |-> "0.0001"], [lastFundingRate |-> "abc"], ErrorBody}

\* Failures of session.get / response.json: the connection-level class that
\* fetch_binance_funding_rate retries, and any other class.
Failures == {"ClientOSError", "ContentTypeError"}

\* range(3) of line 131.
Retries == 3

Returns(v) == <<"returned", v>>
Raises(e) == <<"raised", e>>

\* get_price, lines 54-57, on a JSON body.
get_price(body) ==
    IF "price" \in DOMAIN body THEN Returns(Str(body.price)) ELSE Returns(Str("0"))

\* get_24hr_change, lines 71-74, on a JSON body.
get_24hr_change(body) ==
    IF "priceChangePercent" \in DOMAIN body
    THEN IF IsNumeric(body.priceChangePercent)
         THEN Returns(Float(Decimals[body.priceChangePercent]))
         ELSE Returns(None)
    ELSE Returns(Float(0))

\* fetch_binance_funding_rate, lines 135-138, on a JSON body.
funding_rate_of(body) ==
    IF "lastFundingRate" \in DOMAIN body
    THEN IF IsNumeric(body.lastFundingRate)
         THEN Returns(Float(Decimals[body.lastFundingRate] * 100))
         ELSE Raises("ValueError")
    ELSE Returns(None)

\* Line 131: the for loop has no attempt left after the failures in log.
ExhaustedLate(log) == Len(log) >= Retries + 1
Exhausted(log) == Len(log) >= Retries

\* What a coroutine does with a JSON body.
OnBody(op, body) ==
    CASE op = "get_price" -> get_price(body)
      [] op = "get_24hr_change" -> get_24hr_change(body)
      [] op = "fetch_binance_funding_rate" -> funding_rate_of(body)

\* What a coroutine does when session.get or response.json fails, log being
\* its attempts so far and this one: lines 139-141 for the funding rate (the
\* sleep of line 140 only delays), no handler in the others.
OnFailure(op, cls, log) ==
    IF op = "fetch_binance_funding_rate" /\ cls = "ClientOSError"
    THEN IF Exhausted(log) THEN Returns(None) ELSE <<"pending", None>>
    ELSE Raises(cls)

\* A coroutine before its first request.
NewCoro == [st |-> "pending", log |-> <<>>, val |-> None]

\* The coroutine after an attempt with the given outcome.
After(c, attempt, outcome) ==
    [st |-> outcome[1], log |-> Append(c.log, attempt), val |-> outcome[2]]

-----------------------------------------------------------------------------
\* asyncio.gather, coroutine by coroutine.

-----------------------------------------------------------------------------
\* print_pairs and print_data (print_utils.py). A printed line is a tuple.

\* The 'N/A' of lines 27-29.
NA == <<"N/A">>

\* round(x, digits) of a float in units of 1/10000, digits being 3 or 4; a
\* tie goes to the even neighbour.
Rounded(v, digits) ==
    IF v[1] # "float" \/ digits >= 4 THEN v
    ELSE LET r == v[2] % 10
             down == v[2] - r
         IN  Float(IF r < 5 \/ (r = 5 /\ (down \div 10) % 2 = 0) THEN down ELSE down + 10)

\* Lines 27-29: a value, or the placeholder where it is None.
Cell(v) == IF v = None THEN NA ELSE v

\* Lines 26-29: the line of one snapshot.
RowLine(row) ==
    <<row[1], Cell(row[2]),
      IF row[3] = None THEN NA ELSE Rounded(row[3], 4),
      IF row[4] = None THEN NA ELSE Rounded(row[4], 3)>>

\* Lines 24-29: the lines of the snapshots; line 25 compares the 24h change
\* with 0 first, and None >= 0 raises TypeError.
RECURSIVE RowLines(_)
RowLines(rows) ==
    IF rows = <<>> THEN Returns(<<>>)
    ELSE IF Head(rows)[4] = None THEN Raises("TypeError")
    ELSE LET rest == RowLines(Tail(rows))
         IN  IF rest[1] = "raised" THEN rest
             ELSE Returns(<<RowLine(Head(rows))>> \o rest[2])

\* print_pairs, lines 17-29, header being True: an empty line and the title
\* (line 17), the header (lines 19-22), the rows.
print_pairs(rows, title) ==
    LET body == RowLines(rows)
    IN  IF body[1] = "raised" THEN body
        ELSE Returns(<< <<"">>, <<"title", title>>,
                        <<"Pair", "Price", "% Funding", "% 24h Change">> >> \o body[2])

\* Lines 42-46: the key and the title of every section, in order.
Sections ==
    << <<"trading_pairs", "My Pairs Information">>,
       <<"top_shorted_pairs", "Top shorted pairs">>,
       <<"top_longed_pairs", "Top longed pairs">>,
       <<"top_gainers", "Top Gainers">>,
       <<"top_losers", "Top Losers">> >>

\* Lines 42-46 for the sections given.
RECURSIVE PrintSections(_, _)
PrintSections(d, secs) ==
    IF secs = <<>> THEN Returns(<<>>)
    ELSE IF Head(secs)[1] \notin DOMAIN d THEN Raises("KeyError")
    ELSE LET first == print_pairs(d[Head(secs)[1]], Head(secs)[2])
         IN  IF first[1] = "raised" THEN first
             ELSE LET rest == PrintSections(d, Tail(secs))
                  IN  IF rest[1] = "raised" THEN rest
                      ELSE Returns(first[2] \o rest[2])

\* Line 50: the number of lines the cursor is moved up.
CursorUpShort(n) == n + 16
CursorUp(n) == n + 17

\* print_data, lines 42-50: the lines printed and the lines the cursor moves
\* up; line 49 prints an empty line and the countdown. When main has not
\* assigned data, reading it at main.py line 31 raises.
print_data(d, cd, n) ==
    IF d = None THEN Raises("UnboundLocalError")
    ELSE LET body == PrintSections(d, Sections)
         IN  IF body[1] = "raised" THEN body
             ELSE Returns([lines |-> body[2] \o << <<"">>, <<"Funding countdown", cd>> >>,
                           up |-> CursorUp(n)])

-----------------------------------------------------------------------------
\* fetch_pair_data with the coroutines of asyncio.gather run one by one.

\* The calls SpecGather starts from.
GatherCalls ==
    { << <<"trading_pairs", <<"BTCUSDT", "ETHUSDT">> >>, <<"top_gainers", <<"ETHUSDT">> >>,
         <<"top_losers", <<>> >> >>,
      << <<"trading_pairs", <<"BTCUSDT">> >>, <<"top_gainers", <<>> >>,
         <<"top_losers", <<"BTCUSDT">> >> >>,
      << <<"trading_pairs", <<"ETHUSDT", "BTCUSDT">> >>, <<"top_gainers", <<"BTCUSDT">> >>,
         <<"top_losers", <<"BTCUSDT", "ETHUSDT">> >> >> }

InitGather ==
    /\ pair_lists \in GatherCalls
    /\ InitLocals
    /\ InitMainVars
    /\ Idle

\* Line 200: gather schedules every coroutine of tasks.
GatherStart ==
    /\ pc = "scan"
    /\ li = Len(pair_lists)
    /\ li > 0 => pi = Len(PairList(li))
    /\ pc' = "gather"
    /\ coros' = [k \in 1..Len(tasks) |-> NewCoro]
    /\ UNCHANGED <<pair_lists, li, pi, tasks, pair_to_list, list_names, pairs_names,
                   seen, dups, results, data, j, ret, mainVars, pureVars>>

\* The outcome of a step of coroutine k reaches fetch_pair_data: an exception
\* is raised at line 200 as soon as it occurs.
Settle(k, c) ==
    /\ coros' = [coros EXCEPT ![k] = c]
    /\ pc' = IF c.st = "raised" THEN "raised" ELSE pc
    /\ UNCHANGED <<pair_lists, li, pi, tasks, pair_to_list, list_names, pairs_names,
                   seen, dups, results, data, j, ret, mainVars, pureVars>>

\* The upstream answers a request of coroutine k with a JSON body.
Respond(k) ==
    /\ pc = "gather"
    /\ coros[k].st = "pending"
    /\ \E body \in Bodies(tasks[k].op) :
        Settle(k, After(coros[k], <<"body", body>>, OnBody(tasks[k].op, body)))

\* A request of coroutine k fails.
Fail(k) ==
    /\ pc = "gather"
    /\ coros[k].st = "pending"
    /\ \E cls \in Failures :
        LET attempt == <<"error", cls>>
        IN  Settle(k, After(coros[k], attempt,
                            OnFailure(tasks[k].op, cls, Append(coros[k].log, attempt))))

\* Lines 200-202: every coroutine returned; results holds their values in the
\* order of tasks.
GatherReturn ==
    /\ pc = "gather"
    /\ \A k \in 1..Len(coros) : coros[k].st = "returned"
    /\ results' = [k \in 1..Len(coros) |-> coros[k].val]
    /\ data' = [n \in list_names |-> <<>>]
    /\ j' = 0
    /\ pc' = "reassemble"
    /\ UNCHANGED <<pair_lists, li, pi, tasks, pair_to_list, list_names, pairs_names,
                   seen, dups, ret, coros, mainVars, pureVars>>

\* print_pairs on every list of the returned data, under the keyword as title.
PrintLists ==
    /\ pc = "done"
    /\ printed = None
    /\ printed' = [n \in DOMAIN ret[1] |-> print_pairs(ret[1][n], n)]
    /\ UNCHANGED <<fetchVars, mainVars, rankVars, argVars, clockVars>>

NextGather ==
    \/ NextList
    \/ ScanDup
    \/ ScanNew
    \/ GatherStart
    \/ \E k \in 1..Len(coros) : Respond(k)
    \/ \E k \in 1..Len(coros) : Fail(k)
    \/ GatherReturn
    \/ Reassemble
    \/ Return
    \/ PrintLists

SpecGather == InitGather /\ [][NextGather]_vars

-----------------------------------------------------------------------------
\* The ranking queries: fetch_top_funded_pairs (lines 154-168) over
\* fetch_all_funding_rates (lines 143-152), and get_top_gainers_and_losers
\* (lines 99-118).

\* Largest top_n of the model.
MaxTopN == 2

\* The symbols of the upstream arrays, in the order the upstream lists them.
UniverseSymbols == <<"BTCUSDT", "ETHUSDT", "SOLUSDT", "ETHBTC">>

\* 'USDT' in symbol (lines 114 and 165).
HasUSDT(sym) == sym \in {"BTCUSDT", "ETHUSDT", "SOLUSDT"}

\* The lastFundingRate and priceChangePercent strings of the upstream arrays.
RateStrings == {"-0.0002", "0.0001", "abc"}
PercentStrings == {"-1.5", "2.5", "abc"}

\* The lists get_binance_futures_symbols returns.
FuturesLists == {<<"BTCUSDT", "ETHUSDT", "SOLUSDT", "ETHBTC">>, <<"BTCUSDT", "ETHUSDT">>}

\* The elements of a sequence.
Range(seq) == {seq[k] : k \in 1..Len(seq)}

\* The elements of seq that satisfy keep, in order (a list comprehension with if).
RECURSIVE Filter(_, _)
Filter(seq, keep) ==
    IF seq = <<>> THEN <<>>
    ELSE IF Head(seq) \in keep THEN <<Head(seq)>> \o Filter(Tail(seq), keep)
         ELSE Filter(Tail(seq), keep)

\* seq[:n] and seq[-n:] of Python, n >= 0; -0 is 0, so seq[-0:] is seq[0:].
SliceHead(seq, n) == SubSeq(seq, 1, IF n < Len(seq) THEN n ELSE Len(seq))
SliceTail(seq, n) ==
    IF n = 0 \/ n >= Len(seq) THEN seq ELSE SubSeq(seq, Len(seq) - n + 1, Len(seq))

\* sorted() on <<symbol, key>> pairs: stable, also with reverse=True.
RECURSIVE InsertSorted(_, _, _)
InsertSorted(sorted, x, reverse) ==
    IF sorted = <<>> THEN <<x>>
    ELSE IF (IF reverse THEN Head(sorted)[2] >= x[2] ELSE Head(sorted)[2] <= x[2])
         THEN <<Head(sorted)>> \o InsertSorted(Tail(sorted), x, reverse)
         ELSE <<x>> \o sorted

RECURSIVE SortedByKey(_, _)
SortedByKey(pairs, reverse) ==
    IF pairs = <<>> THEN <<>>
    ELSE InsertSorted(SortedByKey(SubSeq(pairs, 1, Len(pairs) - 1), reverse),
                      pairs[Len(pairs)], reverse)

\* The symbols of <<symbol, key>> pairs.
SymbolsOfPairs(pairs) == [k \in 1..Len(pairs) |-> pairs[k][1]]

\* fetch_all_funding_rates, line 152: float() of every item, times 100.
fetch_all_funding_rates(items) ==
    IF \E k \in 1..Len(items) : ~IsNumeric(items[k].value)
    THEN Raises("ValueError")
    ELSE Returns([k \in 1..Len(items) |->
                    <<items[k].symbol, Decimals[items[k].value] * 100>>])

\* fetch_top_funded_pairs, lines 164-168.
fetch_top_funded_pairs(items, n) ==
    LET funding_rates == fetch_all_funding_rates(items)
    IN  IF funding_rates[1] = "raised" THEN funding_rates
        ELSE LET sorted == SortedByKey(funding_rates[2], FALSE)
                 sorted_pairs == Filter(sorted, {x \in Range(sorted) : HasUSDT(x[1])})
             IN  Returns(<<SymbolsOfPairs(SliceHead(sorted_pairs, n)),
                           SymbolsOfPairs(SliceTail(sorted_pairs, n))>>)

\* get_top_gainers_and_losers, lines 111-118.
get_top_gainers_and_losers(futures, items, n) ==
    LET filtered == Filter(items, {x \in Range(items) :
                                     x.symbol \in Range(futures) /\ HasUSDT(x.symbol)})
    IN  IF \E k \in 1..Len(filtered) : ~IsNumeric(filtered[k].value)
        THEN Raises("ValueError")
        ELSE LET sorted_data ==
                     SortedByKey([k \in 1..Len(filtered) |->
                                    <<filtered[k].symbol, Decimals[filtered[k].value]>>], TRUE)
             IN  Returns(<<SymbolsOfPairs(SliceHead(sorted_data, n)),
                           SymbolsOfPairs(SliceTail(sorted_data, n))>>)

\* The arrays of the upstream: every symbol with one of the strings.
Universes(strings) ==
    {[k \in 1..Len(UniverseSymbols) |-> [symbol |-> UniverseSymbols[k], value |-> v[k]]] :
        v \in [1..Len(UniverseSymbols) -> strings]}

InitRank ==
    /\ rk_pc = "call"
    /\ top_n \in 0..MaxTopN
    /\ \/ /\ rk_op = "fetch_top_funded_pairs"
          /\ universe \in Universes(RateStrings)
          /\ futures_symbols = <<>>
       \/ /\ rk_op = "get_top_gainers_and_losers"
          /\ universe \in Universes(PercentStrings)
          /\ futures_symbols \in FuturesLists
    /\ rk_ret = None
    /\ pair_lists = <<>>
    /\ InitLocals
    /\ InitMainVars
    /\ IdleArgs
    /\ IdleClock
    /\ IdlePrint

\* await binance_api.fetch_top_funded_pairs(top_n).
FundedQuery ==
    /\ rk_pc = "call"
    /\ rk_op = "fetch_top_funded_pairs"
    /\ rk_ret' = fetch_top_funded_pairs(universe, top_n)
    /\ rk_pc' = "done"
    /\ UNCHANGED <<rk_op, universe, futures_symbols, top_n, fetchVars, mainVars,
                   argVars, clockVars, printVars>>

\* await binance_api.get_top_gainers_and_losers(top_n).
ChangeQuery ==
    /\ rk_pc = "call"
    /\ rk_op = "get_top_gainers_and_losers"
    /\ rk_ret' = get_top_gainers_and_losers(futures_symbols, universe, top_n)
    /\ rk_pc' = "done"
    /\ UNCHANGED <<rk_op, universe, futures_symbols, top_n, fetchVars, mainVars,
                   argVars, clockVars, printVars>>

NextRank ==
    \/ FundedQuery
    \/ ChangeQuery

SpecRank == InitRank /\ [][NextRank]_vars

-----------------------------------------------------------------------------
\* __main__: the pair list main is called with (main.py lines 48-67).

\* Most PAIR arguments of a command line of the model.
MaxArgs == 3

\* The words users type, and str.upper() of each.
ArgWords == {"adausdt", "BTCUSDT", "ethusdt", "SOLUSDT"}
Upper == [w \in ArgWords |->
            CASE w = "adausdt" -> "ADAUSDT"
              [] w = "ethusdt" -> "ETHUSDT"
              [] OTHER -> w]

\* The order of str: the place of each symbol in ascending order.
StrOrder == [w \in {"ADAUSDT", "BTCUSDT", "ETHUSDT", "SOLUSDT"} |->
               CASE w = "ADAUSDT" -> 1
                 [] w = "BTCUSDT" -> 2
                 [] w = "ETHUSDT" -> 3
                 [] w = "SOLUSDT" -> 4]

\* Line 55.
UpperAll(words) == [k \in 1..Len(words) |-> Upper[words[k]]]

\* Line 57: list.sort() of strings.
SortedStrs(pairs) ==
    SymbolsOfPairs(SortedByKey([k \in 1..Len(pairs) |-> <<pairs[k], StrOrder[pairs[k]]>>], FALSE))

\* Lines 62-63, one iteration of the loop of line 61.
InsertedFirst(pairs, pair) == <<pair>> \o pairs
InsertIfMissing(pairs, pair) ==
    IF pair \in Range(pairs) THEN pairs ELSE InsertedFirst(pairs, pair)

\* Lines 60-63.
WithDefaults(pairs, enabled) ==
    IF enabled THEN InsertIfMissing(InsertIfMissing(pairs, "ETHUSDT"), "BTCUSDT")
    ELSE pairs

\* Lines 55-63: the list main is called with.
ParsedPairs(words, enabled) == WithDefaults(SortedStrs(UpperAll(words)), enabled)

InitArgs ==
    /\ argv \in SeqsUpTo(ArgWords, MaxArgs)
    /\ default_pairs \in BOOLEAN
    /\ arg_pc = "parse"
    /\ trading_pairs = <<>>
    /\ pair_lists = <<>>
    /\ InitLocals
    /\ InitMainVars
    /\ IdleRank
    /\ IdleClock
    /\ IdlePrint

ArgStep(to, pairs) ==
    /\ arg_pc' = to
    /\ trading_pairs' = pairs
    /\ UNCHANGED <<argv, default_pairs, i, main_pc, rank_at, data_at, top_shorted_pairs,
                   top_longed_pairs, top_gainers, top_losers, main_data, num_pairs,
                   frames, frame, fetchVars, rankVars, clockVars, printVars>>

\* Line 55.
UpperArgs ==
    /\ arg_pc = "parse"
    /\ ArgStep("sort", UpperAll(argv))

\* Line 57.
SortArgs ==
    /\ arg_pc = "sort"
    /\ ArgStep("defaults", SortedStrs(trading_pairs))

\* Lines 60-63, then main is called at line 67.
AddDefaults ==
    /\ arg_pc = "defaults"
    /\ ArgStep("run", WithDefaults(trading_pairs, default_pairs))

NextArgs ==
    \/ UpperArgs
    \/ SortArgs
    \/ AddDefaults

SpecArgs == InitArgs /\ [][NextArgs]_vars

-----------------------------------------------------------------------------
\* The funding countdown: get_next_funding_time and format_timedelta
\* (date_utils.py) as main.py lines 21-22 call them. Times are whole seconds
\* since a midnight UTC.

\* Seconds the clock is followed before and after a funding time.
MaxElapsed == 3

HourSeconds == 3600
DaySeconds == 24 * HourSeconds

\* The funding times the model starts near: 08:00, 16:00 and the next two.
FundingTimes == {8 * HourSeconds, 16 * HourSeconds, 24 * HourSeconds, 32 * HourSeconds}

\* get_next_funding_time, lines 11-21, now being the reading of line 11.
get_next_funding_time(now) ==
    LET hour == (now % DaySeconds) \div HourSeconds
        midnight == now - (now % DaySeconds)
    IN  IF hour < 8 THEN midnight + 8 * HourSeconds
        ELSE IF hour < 16 THEN midnight + 16 * HourSeconds
        ELSE midnight + DaySeconds

\* format_timedelta, lines 33-36: the hours, minutes and seconds the text
\* shows; divmod rounds down, so a negative td gives negative hours.
format_timedelta(td) ==
    LET total_seconds == td
        hours == total_seconds \div HourSeconds
        remainder == total_seconds % HourSeconds
    IN  <<hours, remainder \div 60, remainder % 60>>

InitClock ==
    /\ clock \in {t - d : t \in FundingTimes, d \in 0..MaxElapsed}
    /\ clk_pc = "funding"
    /\ next_funding_time = 0
    /\ countdown = None
    /\ read_at = None
    /\ pair_lists = <<>>
    /\ InitLocals
    /\ InitMainVars
    /\ IdleRank
    /\ IdleArgs
    /\ IdlePrint

\* Time passes, between two ticks or between lines 21 and 22.
Elapse ==
    /\ \E t \in FundingTimes : clock >= t - MaxElapsed /\ clock < t + MaxElapsed
    /\ clock' = clock + 1
    /\ UNCHANGED <<clk_pc, next_funding_time, countdown, read_at, fetchVars, mainVars,
                   rankVars, argVars, printVars>>

\* main.py line 21.
ReadFunding ==
    /\ clk_pc = "funding"
    /\ next_funding_time' = get_next_funding_time(clock)
    /\ clk_pc' = "countdown"
    /\ UNCHANGED <<clock, countdown, read_at, fetchVars, mainVars, rankVars, argVars, printVars>>

\* main.py line 22: datetime.utcnow() is read again.
ReadCountdown ==
    /\ clk_pc = "countdown"
    /\ countdown' = format_timedelta(next_funding_time - clock)
    /\ read_at' = clock
    /\ clk_pc' = "funding"
    /\ UNCHANGED <<clock, next_funding_time, fetchVars, mainVars, rankVars, argVars, printVars>>

NextClock ==
    \/ Elapse
    \/ ReadFunding
    \/ ReadCountdown

SpecClock == InitClock /\ [][NextClock]_vars

-----------------------------------------------------------------------------
\* main: the polling loop (main.py lines 12-34) inside the try of lines 66-69.
\* The countdown of lines 21-22 is modelled apart, under SpecClock.

\* Ticks between ranking refreshes and between pair-data refreshes.
RankEvery == 500
FetchEvery == 20

\* top_n of lines 18-19.
MainTopN == 5

\* Last tick of the model.
MaxTick == 520

\* Lines 17 and 24.
IsRankTickOnce(t) == t = 0
IsRankTick(t) == t % RankEvery = 0
IsFetchTickUneven(t) == t % (FetchEvery + 10) = 0
IsFetchTick(t) == t % FetchEvery = 0

\* The positions of the loop body.
Running == {"rank", "fetch", "fetching", "render", "sleep"}

\* The command lines main is started from.
MainArgv == {<<>>, <<"SOLUSDT">>}

\* The premiumIndex arrays and the 24hr ticker arrays of the upstream.
MainFunding ==
    { << [symbol |-> "BTCUSDT", value |-> "0.0001"], [symbol |-> "ETHUSDT", value |-> "-0.0002"] >>,
      << [symbol |-> "SOLUSDT", value |-> "0.0001"], [symbol |-> "ETHBTC", value |-> "0.0001"] >>,
      << [symbol |-> "BTCUSDT", value |-> "abc"] >> }
MainChange ==
    { << [symbol |-> "BTCUSDT", value |-> "2.5"], [symbol |-> "ETHUSDT", value |-> "-1.5"],
         [symbol |-> "SOLUSDT", value |-> "2.5"] >>,
      << [symbol |-> "ETHUSDT", value |-> "2.5"] >> }

topVars == <<top_shorted_pairs, top_longed_pairs, top_gainers, top_losers>>
dataVars == <<main_data, num_pairs, data_at>>
frameVars == <<frames, frame>>

InitMain ==
    /\ argv \in MainArgv
    /\ default_pairs \in BOOLEAN
    /\ arg_pc = "run"
    /\ trading_pairs = ParsedPairs(argv, default_pairs)
    /\ pair_lists = <<>>
    /\ InitLocals
    /\ InitMainVars
    /\ IdleRank
    /\ IdleClock
    /\ IdlePrint

\* An exception leaves main: asyncio.run raises it at line 67, and line 68
\* handles KeyboardInterrupt only.
Crash ==
    /\ main_pc' = "crashed"
    /\ UNCHANGED <<i, rank_at, trading_pairs, topVars, dataVars, frameVars, fetchVars, pureVars>>

\* Lines 17-19 on a ranking tick: both ranking queries return.
RankRefresh ==
    /\ main_pc = "rank"
    /\ IsRankTick(i)
    /\ \E fu \in MainFunding, cu \in MainChange, fs \in FuturesLists :
        LET funded == fetch_top_funded_pairs(fu, MainTopN)
            changed == get_top_gainers_and_losers(fs, cu, MainTopN)
        IN  /\ funded[1] = "returned"
            /\ changed[1] = "returned"
            /\ top_shorted_pairs' = funded[2][1]
            /\ top_longed_pairs' = funded[2][2]
            /\ top_gainers' = changed[2][1]
            /\ top_losers' = changed[2][2]
    /\ rank_at' = i
    /\ main_pc' = "fetch"
    /\ UNCHANGED <<i, trading_pairs, dataVars, frameVars, fetchVars, pureVars>>

\* Lines 18-19: a ranking query raises (a failed request, float() of a value
\* that is not a number).
RankFail ==
    /\ main_pc = "rank"
    /\ IsRankTick(i)
    /\ Crash

\* Line 17 on any other tick.
RankSkip ==
    /\ main_pc = "rank"
    /\ ~IsRankTick(i)
    /\ main_pc' = "fetch"
    /\ UNCHANGED <<i, rank_at, trading_pairs, topVars, dataVars, frameVars, fetchVars, pureVars>>

\* Lines 25-29: the keyword arguments of the call, in order.
MainCall ==
    << <<"trading_pairs", trading_pairs>>,
       <<"top_shorted_pairs", top_shorted_pairs>>,
       <<"top_longed_pairs", top_longed_pairs>>,
       <<"top_gainers", top_gainers>>,
       <<"top_losers", top_losers>> >>

\* Line 25 on a pair-data tick: fetch_pair_data is called and runs to line 186.
PairCall ==
    /\ main_pc = "fetch"
    /\ IsFetchTick(i)
    /\ main_pc' = "fetching"
    /\ pair_lists' = MainCall
    /\ pc' = "scan"
    /\ li' = 0
    /\ pi' = 0
    /\ tasks' = <<>>
    /\ pair_to_list' = [p \in Symbols |-> <<>>]
    /\ list_names' = {}
    /\ pairs_names' = <<>>
    /\ seen' = {}
    /\ dups' = 0
    /\ results' = <<>>
    /\ data' = <<>>
    /\ j' = 0
    /\ ret' = None
    /\ coros' = <<>>
    /\ UNCHANGED <<i, rank_at, trading_pairs, topVars, dataVars, frameVars, pureVars>>

\* binance_api_utils.py lines 200-202 in the loop: every coroutine returned.
\* The value of a coroutine is the answer of the upstream to its request of
\* this tick, or None from get_24hr_change (lines 73-74) for one symbol.
MainGather ==
    /\ pc = "gather"
    /\ \E lost \in {{}} \cup {{s} : s \in seen} :
        results' = [k \in 1..Len(tasks) |->
                      IF tasks[k].op = "get_24hr_change" /\ tasks[k].pair \in lost
                      THEN None
                      ELSE <<"answer", tasks[k].op, tasks[k].pair, i>>]
    /\ data' = [n \in list_names |-> <<>>]
    /\ j' = 0
    /\ pc' = "reassemble"
    /\ UNCHANGED <<pair_lists, li, pi, tasks, pair_to_list, list_names, pairs_names,
                   seen, dups, ret, coros, mainVars, pureVars>>

\* A step of fetch_pair_data while main awaits it at line 25.
Fetching ==
    /\ main_pc = "fetching"
    /\ \/ NextList
       \/ ScanDup
       \/ ScanNew
       \/ ScanDone
       \/ MainGather
       \/ GatherRaise
       \/ Reassemble
       \/ Return

\* Line 25: data and num_pairs are assigned what fetch_pair_data returned.
KeptWhereHeld(old, fresh) ==
    IF old = None THEN fresh
    ELSE [n \in DOMAIN fresh |-> IF old[n] # <<>> THEN old[n] ELSE fresh[n]]
Refreshed(old, fresh) == fresh

PairRefresh ==
    /\ main_pc = "fetching"
    /\ pc = "done"
    /\ main_data' = Refreshed(main_data, ret[1])
    /\ num_pairs' = ret[2]
    /\ data_at' = i
    /\ main_pc' = "render"
    /\ UNCHANGED <<i, rank_at, trading_pairs, topVars, frameVars, fetchVars, pureVars>>

\* Line 25: fetch_pair_data raises what asyncio.gather raised.
PairFail ==
    /\ main_pc = "fetching"
    /\ pc = "raised"
    /\ Crash

\* Lines 21-24 on any other tick.
PairSkip ==
    /\ main_pc = "fetch"
    /\ ~IsFetchTick(i)
    /\ main_pc' = "render"
    /\ UNCHANGED <<i, rank_at, trading_pairs, topVars, dataVars, frameVars, fetchVars, pureVars>>

\* Line 31: print_data prints the frame.
Render ==
    /\ main_pc = "render"
    /\ LET out == print_data(main_data, countdown, num_pairs)
       IN  /\ out[1] = "returned"
           /\ frame' = out[2]
    /\ frames' = frames + 1
    /\ main_pc' = "sleep"
    /\ UNCHANGED <<i, rank_at, trading_pairs, topVars, dataVars, fetchVars, pureVars>>

\* Line 31: print_pairs compares a 24h change that is None with 0
\* (print_utils.py line 25) and raises TypeError.
RenderFail ==
    /\ main_pc = "render"
    /\ print_data(main_data, countdown, num_pairs)[1] = "raised"
    /\ Crash

\* Lines 33-34.
Tick ==
    /\ main_pc = "sleep"
    /\ i < MaxTick
    /\ i' = i + 1
    /\ main_pc' = "rank"
    /\ UNCHANGED <<rank_at, trading_pairs, topVars, dataVars, frameVars, fetchVars, pureVars>>

\* Lines 68-69: the user interrupts the program.
Interrupt ==
    /\ main_pc \in Running
    /\ main_pc' = "interrupted"
    /\ UNCHANGED <<i, rank_at, trading_pairs, topVars, dataVars, frameVars, fetchVars, pureVars>>

NextMain ==
    \/ RankRefresh
    \/ RankFail
    \/ RankSkip
    \/ PairCall
    \/ Fetching
    \/ PairRefresh
    \/ PairFail
    \/ PairSkip
    \/ Render
    \/ RenderFail
    \/ Tick
    \/ Interrupt

SpecMain == InitMain /\ [][NextMain]_vars

-----------------------------------------------------------------------------
\* Properties of fetch_pair_data.

\* The for loop of lines 187-198 has finished.
Scanned == pc \in {"gather", "reassemble", "done", "raised"}

\* Number of coroutines enqueued for operation op on symbol s.
Issued(op, s) == Cardinality({k \in 1..Len(tasks) : tasks[k] = [op |-> op, pair |-> s]})

FetchOps == {"get_price", "fetch_binance_funding_rate", "get_24hr_change"}

\* Number of occurrences of s over all lists of the call.
RECURSIVE Occurrences(_, _)
Occurrences(pl, s) ==
    IF pl = <<>> THEN 0 ELSE Count(Head(pl)[2], s) + Occurrences(Tail(pl), s)

\* The symbols that occur in some list of the call.
Requested ==
    UNION {{PairList(k)[n] : n \in 1..Len(PairList(k))} : k \in 1..Len(pair_lists)}

\* The symbols of a list of snapshots, in order.
SymbolsOf(snaps) == [n \in 1..Len(snaps) |-> snaps[n][1]]

\* C1: in one call, each operation is enqueued exactly once for every symbol
\* that occurs in the lists, however often it occurs, and never for another
\* symbol; while the lists are scanned, never more than once.
C1_OneFetchPerSymbol ==
    /\ \A a, b \in 1..Len(tasks) : a # b => tasks[a] # tasks[b]
    /\ Scanned =>
        /\ {tasks[k] : k \in 1..Len(tasks)} =
               {[op |-> o, pair |-> s] : o \in FetchOps, s \in Requested}
        /\ \A s \in Requested : \A o \in FetchOps : Issued(o, s) = 1
        /\ Len(tasks) = 3 * Cardinality(Requested)

\* C1 witness: the scan is over and a symbol that occurs three times, in more
\* than one list, has its three coroutines.
C1_Witness ==
    /\ pc = "gather"
    /\ \E s \in Symbols :
        /\ Occurrences(pair_lists, s) >= 3
        /\ Cardinality({k \in 1..Len(pair_lists) : Count(PairList(k), s) > 0}) >= 2
        /\ \A op \in FetchOps : Issued(op, s) = 1

\* C2: every list of the returned data names the symbols of its input list in
\* the input's order.
C2_OrderPreserved ==
    pc = "done" =>
        \A k \in 1..Len(pair_lists) : SymbolsOf(ret[1][ListName(k)]) = PairList(k)

\* C3: the returned data has an entry for every list of the call, as long as
\* the input list.
C3_LengthPreserved ==
    pc = "done" =>
        \A k \in 1..Len(pair_lists) :
            /\ ListName(k) \in DOMAIN ret[1]
            /\ Len(ret[1][ListName(k)]) = Len(PairList(k))

\* C3 witness: a call returned whose lists include an empty one and one that
\* repeats a symbol.
C3_Witness ==
    /\ pc = "done"
    /\ \E k \in 1..Len(pair_lists) : PairList(k) = <<>> /\ ret[1][ListName(k)] = <<>>
    /\ \E k \in 1..Len(pair_lists) : \E s \in Symbols :
        Count(PairList(k), s) = 2 /\ Len(ret[1][ListName(k)]) = 2

\* C4: all snapshots of one symbol in the returned data are the same tuple.
C4_SameSnapshot ==
    pc = "done" =>
        \A g, h \in DOMAIN ret[1] :
            \A m \in 1..Len(ret[1][g]) : \A n \in 1..Len(ret[1][h]) :
                ret[1][g][m][1] = ret[1][h][n][1] => ret[1][g][m] = ret[1][h][n]

\* C4 witness: a call returned with the snapshot of one symbol in three lists.
C4_Witness ==
    /\ pc = "done"
    /\ \E s \in Symbols : \A g \in DOMAIN ret[1] :
        \E m \in 1..Len(ret[1][g]) : ret[1][g][m][1] = s

\* C5: the returned total, distinct symbols plus duplicates, is the number of
\* symbol references of the call.
C5_TotalIsReferences ==
    pc = "done" =>
        /\ ret[2] = TotalRefs(pair_lists)
        /\ ret[2] = Cardinality(Requested) + dups

\* C5 witness: a call returned that counted duplicates.
C5_Witness ==
    /\ pc = "done"
    /\ dups >= 2
    /\ Cardinality(Requested) >= 2
    /\ ret[2] = Cardinality(Requested) + dups

-----------------------------------------------------------------------------
\* Properties of the coroutines run by asyncio.gather.

\* The indices in tasks of the coroutines of operation op.
CorosOf(op) == {k \in 1..Len(coros) : tasks[k].op = op}

TransientFailure == <<"error", "ClientOSError">>

\* Coroutine c was answered, on its last attempt, with a body lacking field.
AnsweredWithout(c, field) ==
    /\ c.log # <<>>
    /\ c.log[Len(c.log)][1] = "body"
    /\ field \notin DOMAIN c.log[Len(c.log)][2]

\* C6: a fetch operation that fails does not make fetch_pair_data raise.
C6_FailureDoesNotAbort ==
    (\E k \in 1..Len(coros) : coros[k].st = "raised") => pc # "raised"

\* C8: fetch_binance_funding_rate makes at most 3 attempts, goes on only
\* after a connection failure, is over once an attempt got an answer, and
\* returns None, raising nothing, after 3 connection failures.
C8_FundingRetries ==
    \A k \in CorosOf("fetch_binance_funding_rate") :
        LET c == coros[k]
            n == Len(c.log)
        IN  /\ n <= 3
            /\ \A a \in 1..n - 1 : c.log[a] = TransientFailure
            /\ (n > 0 /\ c.log[n][1] = "body") => c.st # "pending"
            /\ (n = 3 /\ c.log[n] = TransientFailure) => (c.st = "returned" /\ c.val = None)
            /\ (c.st = "pending" /\ n > 0) => (n < 3 /\ c.log[n] = TransientFailure)

\* C8 witness: a call returned in which one funding-rate coroutine failed
\* three times and gave None, and another was answered on its second attempt.
C8_Witness ==
    /\ pc = "done"
    /\ \E k \in CorosOf("fetch_binance_funding_rate") :
        /\ coros[k].log = <<TransientFailure, TransientFailure, TransientFailure>>
        /\ coros[k].val = None
        /\ ret[1]["trading_pairs"][(k + 1) \div 3][3] = None
    /\ \E k \in CorosOf("fetch_binance_funding_rate") :
        /\ Len(coros[k].log) = 2
        /\ coros[k].log[1] = TransientFailure
        /\ coros[k].log[2][1] = "body"
        /\ coros[k].val = Float(100)

\* C9: get_24hr_change answered without priceChangePercent returns None.
C9_MissingChangeIsNone ==
    \A k \in CorosOf("get_24hr_change") :
        AnsweredWithout(coros[k], "priceChangePercent") =>
            (coros[k].st = "returned" /\ coros[k].val = None)

\* C10: get_price answered without price returns a value that no answer
\* carrying a price of zero makes it return.
C10_MissingPriceIsNotZero ==
    \A k \in CorosOf("get_price") :
        AnsweredWithout(coros[k], "price") =>
            /\ coros[k].st = "returned"
            /\ \A body \in Bodies("get_price") :
                ("price" \in DOMAIN body /\ Decimals[body.price] = 0) =>
                    coros[k].val # get_price(body)[2]

\* The coroutine enqueued for operation op on symbol s.
TaskOf(op, s) == CHOOSE k \in 1..Len(tasks) : tasks[k] = [op |-> op, pair |-> s]

\* What the last attempt of coroutine k gives: the value its own function
\* makes of the body the upstream answered its last request with, or None
\* when that request failed.
ValueOf(k) ==
    LET last == coros[k].log[Len(coros[k].log)]
    IN  IF last[1] = "body" THEN OnBody(tasks[k].op, last[2])[2] ELSE None

\* C17: whatever the order the coroutines finished in, every snapshot of the
\* returned data holds, for its symbol, the price answered to the price
\* request of that symbol, the funding rate answered to its funding request
\* (times 100) and the change answered to its change request.
C17_OwnResponses ==
    pc = "done" =>
        \A n \in DOMAIN ret[1] : \A k \in 1..Len(ret[1][n]) :
            LET row == ret[1][n][k]
                funding == TaskOf("fetch_binance_funding_rate", row[1])
                last == coros[funding].log[Len(coros[funding].log)]
            IN  /\ row[2] = ValueOf(TaskOf("get_price", row[1]))
                /\ row[3] = ValueOf(funding)
                /\ row[4] = ValueOf(TaskOf("get_24hr_change", row[1]))
                /\ (last[1] = "body" /\ "lastFundingRate" \in DOMAIN last[2]) =>
                       row[3] = Float(Decimals[last[2].lastFundingRate] * 100)

\* C17 witness: BTCUSDT was answered 65000.1, 0.0001 and 2.5 and ETHUSDT,
\* which is in two lists, a body without a price, without a funding rate and
\* without a change.
C17_Witness ==
    /\ pc = "done"
    /\ ret[1]["trading_pairs"] =
          << <<"BTCUSDT", Str("65000.1"), Float(100), Float(25000)>>,
             <<"ETHUSDT", Str("0"), None, Float(0)>> >>
    /\ ret[1]["top_gainers"] = << <<"ETHUSDT", Str("0"), None, Float(0)>> >>

-----------------------------------------------------------------------------
\* Properties of print_pairs.

\* A snapshot with a value that is None.
Partial(row) == \E f \in 2..4 : row[f] = None

\* C14: print_pairs returns on every list, also one with a value that is
\* None, and the line of every snapshot shows the pair, and each value or the
\* placeholder where the value is None.
C14_PartialIsRendered ==
    printed # None =>
        \A n \in DOMAIN printed :
            /\ printed[n][1] = "returned"
            /\ Len(printed[n][2]) = Len(ret[1][n]) + 3
            /\ \A k \in 1..Len(ret[1][n]) :
                LET row == ret[1][n][k]
                    line == printed[n][2][k + 3]
                IN  /\ line[1] = row[1]
                    /\ \A f \in 2..4 : (line[f] = NA) <=> (row[f] = None)

-----------------------------------------------------------------------------
\* Properties of the polling loop.

\* C7: the loop is running or was stopped by the user interrupt; no failure
\* of a ranking query, a pair fetch or a render ends it.
C7_OnlyInterruptStops == main_pc \in Running \cup {"interrupted"}

-----------------------------------------------------------------------------
\* Properties of the refreshes and the frames of the polling loop.

\* The latest multiple of n at or before tick t, and the latest one before t
\* (-1 when there is none).
LastAt(n, t) == n * (t \div n)
LastBefore(n, t) == IF t = 0 THEN -1 ELSE n * ((t - 1) \div n)

\* C12: at every position of tick i the ranking was refreshed last on the
\* latest multiple of 500 and the pair data on the latest multiple of 20, a
\* frame was printed on every tick before, and within the tick the ranking
\* refresh comes first, the pair-data refresh second and the frame last.
C12_Cadence ==
    /\ main_pc = "rank" =>
        /\ rank_at = LastBefore(RankEvery, i)
        /\ data_at = LastBefore(FetchEvery, i)
        /\ frames = i
    /\ main_pc \in {"fetch", "fetching"} =>
        /\ rank_at = LastAt(RankEvery, i)
        /\ data_at = LastBefore(FetchEvery, i)
        /\ frames = i
    /\ main_pc = "render" =>
        /\ rank_at = LastAt(RankEvery, i)
        /\ data_at = LastAt(FetchEvery, i)
        /\ frames = i
    /\ main_pc = "sleep" =>
        /\ rank_at = LastAt(RankEvery, i)
        /\ data_at = LastAt(FetchEvery, i)
        /\ frames = i + 1

\* C12 witness: the frame of tick 519 is printed, after the second ranking
\* refresh and the pair-data refresh of tick 500.
C12_Witness ==
    /\ main_pc = "sleep"
    /\ i = 519
    /\ rank_at = 500
    /\ data_at = 500
    /\ frames = 520

\* The ticks of the answers held in a data.
Cycles(d) ==
    UNION {UNION {{d[n][k][f][4] : f \in {g \in 2..4 : d[n][k][g] # None}} :
                     k \in 1..Len(d[n])} : n \in DOMAIN d}

\* C16: the data a frame is printed from holds answers of one pair-data
\* refresh only, the one of the latest pair-data tick.
C16_OneCycle ==
    (main_pc = "render" /\ main_data # None) =>
        /\ Cycles(main_data) \subseteq {data_at}
        /\ data_at = LastAt(FetchEvery, i)

\* C16 witness: the frame of tick 45 is about to be printed from the answers
\* of tick 40, the third refresh.
C16_Witness ==
    /\ main_pc = "render"
    /\ i = 45
    /\ Cycles(main_data) = {40}

\* The symbol lists main holds, by keyword.
MainLists == [n \in {MainCall[k][1] : k \in 1..Len(MainCall)} |->
                LET k == CHOOSE m \in 1..Len(MainCall) : MainCall[m][1] = n
                IN  MainCall[k][2]]

\* C19: the data a frame is printed from exists and holds, under every
\* keyword, the symbols of the list main holds under it now: the lists of the
\* latest ranking refresh.
C19_FreshGroups ==
    main_pc = "render" =>
        /\ main_data # None
        /\ DOMAIN main_data = DOMAIN MainLists
        /\ \A n \in DOMAIN MainLists :
            /\ Range(SymbolsOf(main_data[n])) = Range(MainLists[n])
            /\ Len(main_data[n]) = Len(MainLists[n])

\* C19 witness: the frame of tick 500 is about to be printed after a ranking
\* refresh that changed the gainers, from data of that tick.
C19_Witness ==
    /\ main_pc = "render"
    /\ i = 500
    /\ top_gainers = <<"ETHUSDT">>
    /\ top_shorted_pairs = <<"SOLUSDT">>
    /\ SymbolsOf(main_data["top_gainers"]) = <<"ETHUSDT">>
    /\ Cycles(main_data) = {500}

\* Sum of the lengths of the lists of a data.
RECURSIVE Rows(_, _)
Rows(d, secs) == IF secs = <<>> THEN 0 ELSE Len(d[Head(secs)[1]]) + Rows(d, Tail(secs))

\* C20: the num_pairs a frame is printed with is the number of rows of its
\* data, and the frame printed moves the cursor up by the number of lines it
\* printed.
C20_FrameHeight ==
    /\ (main_pc = "render" /\ main_data # None) => num_pairs = Rows(main_data, Sections)
    /\ (main_pc = "sleep" /\ frames > 0) => frame.up = Len(frame.lines)

\* C20 witness: a frame was printed whose data names a symbol under more than
\* one keyword.
C20_Witness ==
    /\ main_pc = "sleep"
    /\ num_pairs > Cardinality(seen)
    /\ Cardinality(seen) >= 2
    /\ Len(frame.lines) = num_pairs + 17
    /\ frame.up = Len(frame.lines)

-----------------------------------------------------------------------------
\* Properties of the funding countdown.

\* Length of a funding window.
WindowSeconds == 8 * HourSeconds

\* The seconds a countdown shows.
ShownSeconds(cd) == cd[1] * HourSeconds + cd[2] * 60 + cd[3]

\* C13: a countdown is never negative and never more than 8 hours, and it is
\* the time left in the funding window the clock was in when it was read: it
\* falls as the clock advances inside a window and is back at 8h when the
\* clock crosses 00:00, 08:00 or 16:00, also between the two readings.
C13_CountdownInWindow ==
    countdown # None =>
        /\ countdown[1] >= 0
        /\ ShownSeconds(countdown) >= 0
        /\ ShownSeconds(countdown) <= WindowSeconds
        /\ ShownSeconds(countdown) = WindowSeconds - (read_at % WindowSeconds)

-----------------------------------------------------------------------------
\* Properties of the ranking queries.

\* The universe a query ranks: the items that pass its filter.
Ranked ==
    Filter(universe, {x \in Range(universe) :
        /\ HasUSDT(x.symbol)
        /\ rk_op = "get_top_gainers_and_losers" => x.symbol \in Range(futures_symbols)})

\* The items of the ranked universe whose value float() rejects.
Unparsable == {x \in Range(Ranked) : ~IsNumeric(x.value)}

Smaller(a, b) == IF a < b THEN a ELSE b

\* C11: a ranking query that returns gives, on each side, top_n symbols, or
\* all of the filtered universe when that is smaller, all of them with USDT.
C11_AtMostNPerSide ==
    (rk_pc = "done" /\ rk_ret[1] = "returned") =>
        \A side \in 1..2 :
            /\ Len(rk_ret[2][side]) = Smaller(top_n, Len(Ranked))
            /\ \A sym \in Range(rk_ret[2][side]) : HasUSDT(sym)

\* C18: a ranking query over a universe with an unparsable value returns,
\* and returns no symbol of an unparsable entry.
C18_UnparsableExcluded ==
    (rk_pc = "done" /\ Unparsable # {}) =>
        /\ rk_ret[1] = "returned"
        /\ \A side \in 1..2 : \A x \in Unparsable : x.symbol \notin Range(rk_ret[2][side])

-----------------------------------------------------------------------------
\* Properties of the pair list of __main__.

Defaults == {"BTCUSDT", "ETHUSDT"}

\* The pairs of the command line that are not defaults, upper-cased and sorted.
OtherPairs ==
    LET up == UpperAll(argv)
    IN  SortedStrs(Filter(up, Range(up) \ Defaults))

\* C15: with default pairs enabled, main is called with BTCUSDT, ETHUSDT and
\* then the other pairs of the command line in sorted order.
C15_DefaultsFirst ==
    (arg_pc = "run" /\ default_pairs) =>
        trading_pairs = <<"BTCUSDT", "ETHUSDT">> \o OtherPairs

====
